---- MODULE Spec2Model ----
(***************************************************************************)
(* Job scheduler: JobsService (jobs.service.ts) orchestrating the job      *)
(* store (JobRepository, mongoose documents), the Bull queue wrapper       *)
(* (BullJobScheduler), the execution log (JobLoggerService) and the        *)
(* executor.  Time is counted in whole hours from the start of a           *)
(* non-leap year.                                                          *)
(***************************************************************************)
EXTENDS Integers, Sequences, FiniteSets, TLC

\* ---------------------------------------------------------------- bounds
MaxTime == 1          \* the clock runs over 0..MaxTime
MaxAttempts == 2      \* executeJob invocations that may start in one run
MaxRetriesIn == 1     \* maxRetries values supplied by callers: 0..MaxRetriesIn
MaxFromDay == 364     \* days of the year calculateNextRunTime is applied on: 0..MaxFromDay

\* ------------------------------------------------------- program constants
DefaultMaxRetries == 3
DefaultRetryCount == 0

JobIds == {1}
Users == {"u1", "u2"}
Owners == {"u1"}      \* the users who create jobs; u2 only ever calls on others' jobs
Workers == {1, 2}
Times == 0..MaxTime

NoDate == 0 - 1       \* an unset Date field (undefined)
ADate == "date"       \* a set Date field whose instant no code path reads
NoNumber == 0 - 2     \* an absent optional number in a DTO
None == "none"        \* an unset string / enum field (undefined)

PENDING == "pending"
RUNNING == "running"
COMPLETED == "completed"
FAILED == "failed"
CANCELLED == "cancelled"
JobStatus == {PENDING, RUNNING, COMPLETED, FAILED, CANCELLED}

ONE_TIME == "one_time"
RECURRING == "recurring"
JobType == {ONE_TIME, RECURRING}

HOURLY == "hourly"
DAILY == "daily"
WEEKLY == "weekly"
MONTHLY == "monthly"
RecurrencePattern == {HOURLY, DAILY, WEEKLY, MONTHLY}

SUCCESS == "success"
ExecutionStatus == {SUCCESS, FAILED}

VARIABLES
    jobs,         \* the jobs collection: id -> persisted Job document
    queue,        \* the Bull queue: id -> entry keyed by the custom jobId
    workers,      \* in-flight executeJob invocations, one per processor slot
    executions,   \* the job_executions collection, in insertion order
    now,          \* the clock
    nextId,       \* next fresh document id
    last,         \* the error the step taken last raised (None: none)
    deleting      \* deleteJob calls between their two steps: <<id, userId>>

vars == <<jobs, queue, workers, executions, now, nextId, last, deleting>>

\* what is remembered of the step op taken last: the error it raised
Did(op, error) == [error |-> error]

\* ------------------------------------------------------------ calendar
DaysInMonth == <<31, 28, 31, 30, 31, 30, 31, 31, 30, 31, 30, 31>>

RECURSIVE DaysBefore(_)
DaysBefore(m) == IF m = 0 THEN 0 ELSE DaysInMonth[((m - 1) % 12) + 1] + DaysBefore(m - 1)

\* month index (0-based, counted from the epoch) holding day number d
RECURSIVE MonthOf(_, _)
MonthOf(d, m) == IF d < DaysBefore(m + 1) THEN m ELSE MonthOf(d, m + 1)

\* Date.setMonth(getMonth() + 1): same day-of-month in the next month; a day
\* past the end of that month rolls over into the month after it
AddMonth(t) ==
    LET d == t \div 24
        h == t % 24
        m == MonthOf(d, 0)
        dom == d - DaysBefore(m)
    IN  (DaysBefore(m + 1) + dom) * 24 + h

calculateNextRunTime(currentTime, pattern) ==
    CASE pattern = HOURLY -> currentTime + 1
      [] pattern = DAILY -> currentTime + 24
      [] pattern = WEEKLY -> currentTime + 7 * 24
      [] pattern = MONTHLY -> AddMonth(currentTime)
      [] OTHER -> currentTime

\* ------------------------------------------------------ BullJobScheduler
Max(a, b) == IF a >= b THEN a ELSE b

\* calculateDelay without Math.max(0, ...)
calculateDelayNoFloor(scheduledAt, t) == scheduledAt - t

calculateDelay(scheduledAt, t) == Max(0, scheduledAt - t)

\* scheduleJob without the jobId option: Bull numbers the entry itself, so an
\* add never meets an existing key
scheduleJobAutoKey(q, id, job, t) ==
    LET at == IF job.nextRunAt # NoDate THEN job.nextRunAt ELSE job.scheduledAt
        delay == calculateDelay(at, t)
        key == IF id \in DOMAIN q THEN 100 + Cardinality(DOMAIN q) ELSE id
    IN  q @@ (key :> [jobId |-> id, state |-> "delayed", at |-> t + delay,
                      redelivered |-> FALSE])

\* queue.add('execute-job', {jobId: job.id}, {delay, jobId: job.id, ...}): the
\* entry is stored under the key job.id and carries job.id as its data; Bull
\* ignores an add whose key already names an entry of the queue (in any state)
scheduleJob(q, id, job, t) ==
    LET at == IF job.nextRunAt # NoDate THEN job.nextRunAt ELSE job.scheduledAt
        delay == calculateDelay(at, t)
    IN  IF id \in DOMAIN q THEN q
        ELSE q @@ (id :> [jobId |-> id, state |-> "delayed", at |-> t + delay,
                          redelivered |-> FALSE])

\* job.remove() of an entry that a processor holds locked rejects
\* ('Could not remove job')
CanRemove(q, id) == id \in DOMAIN q => q[id].state # "active"

schedulerCancelJob(q, id) == [j \in DOMAIN q \ {id} |-> q[j]]

rescheduleQueue(q, id, job, t) == scheduleJob(schedulerCancelJob(q, id), id, job, t)

\* --------------------------------------------------------- JobRepository
\* findById with the userId filter dropped
findByIdAnyOwner(id, userId) == id \in DOMAIN jobs

findById(id, userId) == id \in DOMAIN jobs /\ jobs[id].userId = userId

\* JobRepository.create without the fallback to the creation time
repositoryCreateNoFallback(userId, dto, t) ==
    [ userId |-> userId,
      type |-> dto.type,
      recurrencePattern |-> dto.recurrencePattern,
      status |-> PENDING,
      isActive |-> TRUE,
      retryCount |-> DefaultRetryCount,
      maxRetries |-> IF dto.maxRetries = NoNumber THEN DefaultMaxRetries ELSE dto.maxRetries,
      scheduledAt |-> dto.scheduledAt,
      nextRunAt |-> dto.scheduledAt,
      startedAt |-> None,
      completedAt |-> None,
      errorMessage |-> None,
      result |-> None ]

repositoryCreate(userId, dto, t) ==
    [ userId |-> userId,
      type |-> dto.type,
      recurrencePattern |-> dto.recurrencePattern,
      status |-> PENDING,
      isActive |-> TRUE,
      retryCount |-> DefaultRetryCount,
      maxRetries |-> IF dto.maxRetries = NoNumber THEN DefaultMaxRetries ELSE dto.maxRetries,
      scheduledAt |-> dto.scheduledAt,
      nextRunAt |-> IF dto.scheduledAt # NoDate THEN dto.scheduledAt ELSE t,
      startedAt |-> None,
      completedAt |-> None,
      errorMessage |-> None,
      result |-> None ]

\* JobRepository.update assigning nextRunAt from the patch whether or not the
\* patch carries a scheduledAt
repositoryUpdateNextRunAtAlways(job, patch) ==
    [ job EXCEPT
        !.scheduledAt = IF patch.scheduledAt # NoDate THEN patch.scheduledAt ELSE @,
        !.nextRunAt = patch.scheduledAt,
        !.recurrencePattern = IF patch.recurrencePattern # None THEN patch.recurrencePattern ELSE @,
        !.maxRetries = IF patch.maxRetries # NoNumber THEN patch.maxRetries ELSE @ ]

\* Object.assign(job, updateJobDto); nextRunAt follows a supplied scheduledAt
repositoryUpdate(job, patch) ==
    [ job EXCEPT
        !.scheduledAt = IF patch.scheduledAt # NoDate THEN patch.scheduledAt ELSE @,
        !.nextRunAt = IF patch.scheduledAt # NoDate THEN patch.scheduledAt ELSE @,
        !.recurrencePattern = IF patch.recurrencePattern # None THEN patch.recurrencePattern ELSE @,
        !.maxRetries = IF patch.maxRetries # NoNumber THEN patch.maxRetries ELSE @ ]

\* ------------------------------------------------------------- DTO inputs
\* the recurrence patterns the calls supply; one pattern exercises the recurring branch
PatternsIn == {DAILY}

CreateJobDtos ==
    [ type : JobType,
      recurrencePattern : {None} \cup PatternsIn,
      scheduledAt : Times \cup {NoDate},
      maxRetries : (0..MaxRetriesIn) \cup {NoNumber} ]

UpdateJobDtos ==
    [ scheduledAt : Times \cup {NoDate},
      recurrencePattern : {None} \cup PatternsIn,
      maxRetries : {NoNumber, 0} ]

\* ------------------------------------------------------------------ Init
IdleWorker == [pc |-> "idle", jobId |-> 0, status |-> None, retryCount |-> 0,
               maxRetries |-> 0, type |-> None, recurrencePattern |-> None,
               errorMessage |-> None]

Init ==
    /\ jobs = <<>>
    /\ queue = <<>>
    /\ workers = [w \in Workers |-> IdleWorker]
    /\ executions = <<>>
    /\ now = 0
    /\ nextId = 1
    /\ last = Did("init", None)
    /\ deleting = {}

\* ------------------------------------------------- JobsService: API calls
\* Each call is one step.  The <op>Error operators give the error the call
\* rejects with in the current state (None: it returns normally).
createJob(userId, dto) ==
    /\ nextId \in JobIds
    /\ LET job == repositoryCreate(userId, dto, now)
       IN  /\ jobs' = jobs @@ (nextId :> job)
           /\ queue' = scheduleJob(queue, nextId, job, now)
    /\ nextId' = nextId + 1
    /\ last' = Did("createJob", None)
    /\ UNCHANGED <<workers, executions, now, deleting>>

updateJobError(id, userId, patch) ==
    IF ~findById(id, userId) THEN "NotFound"
    ELSE IF patch.scheduledAt # NoDate /\ ~CanRemove(queue, id) THEN "CouldNotRemove"
    ELSE None

updateJob(id, userId, patch) ==
    /\ IF ~findById(id, userId)
       THEN UNCHANGED <<jobs, queue>>
       ELSE LET job == repositoryUpdate(jobs[id], patch)
            IN  /\ jobs' = [jobs EXCEPT ![id] = job]
                /\ queue' = IF patch.scheduledAt # NoDate /\ CanRemove(queue, id)
                            THEN rescheduleQueue(queue, id, job, now)
                            ELSE queue
    /\ last' = Did("updateJob", updateJobError(id, userId, patch))
    /\ UNCHANGED <<workers, executions, now, nextId, deleting>>

rescheduleJobError(id, userId) ==
    IF ~findById(id, userId) THEN "NotFound"
    ELSE IF ~CanRemove(queue, id) THEN "CouldNotRemove"
    ELSE None

\* rescheduleJob adding the queue entry without cancelling the old one first
rescheduleJobNoCancel(id, userId, scheduledAt) ==
    /\ IF ~findById(id, userId)
       THEN UNCHANGED <<jobs, queue>>
       ELSE LET job == repositoryUpdate(jobs[id],
                           [scheduledAt |-> scheduledAt, recurrencePattern |-> None,
                            maxRetries |-> NoNumber])
            IN  /\ jobs' = [jobs EXCEPT ![id] = job]
                /\ queue' = scheduleJob(queue, id, job, now)
    /\ last' = Did("rescheduleJob", rescheduleJobError(id, userId))
    /\ UNCHANGED <<workers, executions, now, nextId, deleting>>

rescheduleJob(id, userId, scheduledAt) ==
    /\ IF ~findById(id, userId)
       THEN UNCHANGED <<jobs, queue>>
       ELSE LET job == repositoryUpdate(jobs[id],
                           [scheduledAt |-> scheduledAt, recurrencePattern |-> None,
                            maxRetries |-> NoNumber])
            IN  /\ jobs' = [jobs EXCEPT ![id] = job]
                /\ queue' = IF CanRemove(queue, id)
                            THEN rescheduleQueue(queue, id, job, now)
                            ELSE queue
    /\ last' = Did("rescheduleJob", rescheduleJobError(id, userId))
    /\ UNCHANGED <<workers, executions, now, nextId, deleting>>

\* cancelJobError with the cancelled case of the status check dropped
cancelJobErrorCompletedOnly(id, userId) ==
    IF ~findById(id, userId) THEN "NotFound"
    ELSE IF jobs[id].status = COMPLETED THEN "CannotCancel"
    ELSE IF ~CanRemove(queue, id) THEN "CouldNotRemove"
    ELSE None

cancelJobError(id, userId) ==
    IF ~findById(id, userId) THEN "NotFound"
    ELSE IF jobs[id].status = COMPLETED \/ jobs[id].status = CANCELLED THEN "CannotCancel"
    ELSE IF ~CanRemove(queue, id) THEN "CouldNotRemove"
    ELSE None

cancelJob(id, userId) ==
    /\ IF cancelJobError(id, userId) \in {"NotFound", "CannotCancel"}
       THEN UNCHANGED <<jobs, queue>>
       ELSE /\ jobs' = [jobs EXCEPT ![id].status = CANCELLED, ![id].isActive = FALSE]
            /\ queue' = IF CanRemove(queue, id) THEN schedulerCancelJob(queue, id) ELSE queue
    /\ last' = Did("cancelJob", cancelJobError(id, userId))
    /\ UNCHANGED <<workers, executions, now, nextId, deleting>>

deleteJobError(id, userId) ==
    IF ~CanRemove(queue, id) THEN "CouldNotRemove"
    ELSE IF ~findById(id, userId) THEN "NotFound"
    ELSE None

\* deleteJob removing the execution records of the job along with it
deleteJobCascade(id, userId) ==
    /\ IF ~CanRemove(queue, id)
       THEN UNCHANGED <<jobs, queue, executions>>
       ELSE /\ queue' = schedulerCancelJob(queue, id)
            /\ jobs' = IF findById(id, userId)
                       THEN [j \in DOMAIN jobs \ {id} |-> jobs[j]]
                       ELSE jobs
            /\ executions' = IF findById(id, userId)
                             THEN SelectSeq(executions, LAMBDA e : e.jobId # id)
                             ELSE executions
    /\ last' = Did("deleteJob", deleteJobError(id, userId))
    /\ UNCHANGED <<workers, now, nextId, deleting>>

deleteJob(id, userId) ==
    /\ IF ~CanRemove(queue, id)
       THEN UNCHANGED <<jobs, queue>>
       ELSE /\ queue' = schedulerCancelJob(queue, id)
            /\ jobs' = IF findById(id, userId)
                       THEN [j \in DOMAIN jobs \ {id} |-> jobs[j]]
                       ELSE jobs
    /\ last' = Did("deleteJob", deleteJobError(id, userId))
    /\ UNCHANGED <<workers, executions, now, nextId, deleting>>

\* deleteJob as its two awaited steps, between which other calls and the queue
\* may act: jobScheduler.cancelJob(id) ...
deleteJobCancel(id, userId) ==
    /\ <<id, userId>> \notin deleting
    /\ IF ~CanRemove(queue, id)
       THEN /\ UNCHANGED <<queue, deleting>>
            /\ last' = Did("deleteJob", "CouldNotRemove")
       ELSE /\ queue' = schedulerCancelJob(queue, id)
            /\ deleting' = deleting \cup {<<id, userId>>}
            /\ last' = Did("deleteJobCancel", None)
    /\ UNCHANGED <<jobs, workers, executions, now, nextId>>

\* ... then jobRepository.delete(id, userId)
deleteJobRemove(id, userId) ==
    /\ <<id, userId>> \in deleting
    /\ jobs' = IF findById(id, userId)
               THEN [j \in DOMAIN jobs \ {id} |-> jobs[j]]
               ELSE jobs
    /\ deleting' = deleting \ {<<id, userId>>}
    /\ last' = Did("deleteJob", IF findById(id, userId) THEN None ELSE "NotFound")
    /\ UNCHANGED <<queue, workers, executions, now, nextId>>

\* the reads: getJob throws NotFound when findById returns nothing, and
\* getJobExecutionHistory calls getJob before it reads the history
getJob(id, userId) ==
    /\ last' = Did("getJob", IF findById(id, userId) THEN None ELSE "NotFound")
    /\ UNCHANGED <<jobs, queue, workers, executions, now, nextId, deleting>>

getJobExecutionHistory(id, userId) ==
    /\ last' = Did("getJobExecutionHistory",
                   IF findById(id, userId) THEN None ELSE "NotFound")
    /\ UNCHANGED <<jobs, queue, workers, executions, now, nextId, deleting>>

\* ------------------------------------------------------ JobLoggerService
\* logExecution builds a new execution document from the fields it is given
\* and saves it: every call inserts one record
logExecution(log, execution) == Append(log, execution)

\* ------------------------------------------- queue delivery (JobProcessor)
IdleWorkers == {w \in Workers : workers[w].pc = "idle"}

FreeWorker == CHOOSE w \in IdleWorkers : \A v \in IdleWorkers : w <= v

InFlight(id) == {w \in Workers : workers[w].pc # "idle" /\ workers[w].jobId = id}

\* executeJob invocations started so far: one provisional record each, plus
\* the invocations that have not logged yet
attempts ==
    Cardinality({i \in DOMAIN executions : executions[i].completedAt = None})
    + Cardinality({w \in Workers : workers[w].pc = "start"})

\* the delay of the entry has elapsed: a processor takes it and calls
\* handleJobExecution -> executeJob(jobId)
Deliver(id) ==
    /\ id \in DOMAIN queue
    /\ queue[id].state = "delayed"
    /\ queue[id].at <= now
    /\ IdleWorkers # {}
    /\ attempts < MaxAttempts
    /\ queue' = [queue EXCEPT ![id].state = "active"]
    /\ workers' = [workers EXCEPT ![FreeWorker] =
                      [IdleWorker EXCEPT !.pc = "start", !.jobId = queue[id].jobId]]
    /\ last' = Did("Deliver", None)
    /\ UNCHANGED <<jobs, executions, now, nextId, deleting>>

\* at-least-once delivery: an active entry whose lock lapsed (stalled) is
\* handed to a processor again while the first invocation is still running
Redeliver(id) ==
    /\ id \in DOMAIN queue
    /\ queue[id].state = "active"
    /\ ~queue[id].redelivered
    /\ IdleWorkers # {}
    /\ attempts < MaxAttempts
    /\ queue' = [queue EXCEPT ![id].redelivered = TRUE]
    /\ workers' = [workers EXCEPT ![FreeWorker] =
                      [IdleWorker EXCEPT !.pc = "start", !.jobId = queue[id].jobId]]
    /\ last' = Did("Redeliver", None)
    /\ UNCHANGED <<jobs, executions, now, nextId, deleting>>

\* the processor's handler returned: Bull moves the entry to completed once
\* no invocation holds it any more (removeOnComplete: false keeps the entry)
Finished(q, w) ==
    LET id == workers[w].jobId
    IN  IF id \in DOMAIN q /\ q[id].state = "active" /\ InFlight(id) = {w}
        THEN [q EXCEPT ![id].state = "completed"]
        ELSE q

\* the processor's handler threw: Bull moves the entry back to delayed while
\* attempts remain (attempts: maxRetries + 1, counted by Bull) and to failed
\* otherwise
Thrown(q, w, retry) ==
    LET id == workers[w].jobId
    IN  IF id \in DOMAIN q /\ q[id].state = "active" /\ InFlight(id) = {w}
        THEN [q EXCEPT ![id].state = IF retry THEN "delayed" ELSE "failed", ![id].at = now]
        ELSE q

\* ------------------------------------------------- JobsService.executeJob
\* executeJob without the test for an absent job: reading job._id throws and
\* the queue retries the wake-up
ExecLoadNoAbsentCheck(w) ==
    /\ workers[w].pc = "start"
    /\ LET id == workers[w].jobId
       IN  IF id \notin DOMAIN jobs
           THEN /\ workers' = [workers EXCEPT ![w] = IdleWorker]
                /\ queue' = Thrown(queue, w, TRUE)
                /\ executions' = executions
           ELSE /\ workers' = [workers EXCEPT ![w] =
                      [ pc |-> "logged", jobId |-> id,
                        status |-> jobs[id].status,
                        retryCount |-> jobs[id].retryCount,
                        maxRetries |-> jobs[id].maxRetries,
                        type |-> jobs[id].type,
                        recurrencePattern |-> jobs[id].recurrencePattern,
                        errorMessage |-> jobs[id].errorMessage ]]
                /\ executions' = logExecution(executions,
                      [ jobId |-> id,
                        attemptNumber |-> jobs[id].retryCount + 1,
                        status |-> FAILED, completedAt |-> None ])
                /\ queue' = queue
    /\ last' = Did("ExecLoad", None)
    /\ UNCHANGED <<jobs, now, nextId, deleting>>

\* findById; absent -> log and return.  Otherwise append the attempt's record
\* with the provisional outcome failed.
ExecLoad(w) ==
    /\ workers[w].pc = "start"
    /\ LET id == workers[w].jobId
       IN  IF id \notin DOMAIN jobs
           THEN /\ workers' = [workers EXCEPT ![w] = IdleWorker]
                /\ queue' = Finished(queue, w)
                /\ executions' = executions
           ELSE /\ workers' = [workers EXCEPT ![w] =
                      [ pc |-> "logged", jobId |-> id,
                        status |-> jobs[id].status,
                        retryCount |-> jobs[id].retryCount,
                        maxRetries |-> jobs[id].maxRetries,
                        type |-> jobs[id].type,
                        recurrencePattern |-> jobs[id].recurrencePattern,
                        errorMessage |-> jobs[id].errorMessage ]]
                /\ executions' = logExecution(executions,
                      [ jobId |-> id,
                        attemptNumber |-> jobs[id].retryCount + 1,
                        status |-> FAILED, completedAt |-> None ])
                /\ queue' = queue
    /\ last' = Did("ExecLoad", None)
    /\ UNCHANGED <<jobs, now, nextId, deleting>>

\* job.status = RUNNING; job.startedAt = new Date(); save().  save() writes
\* the modified paths of the loaded document only.
ExecRun(w) ==
    /\ workers[w].pc = "logged"
    /\ workers[w].jobId \in DOMAIN jobs
    /\ LET id == workers[w].jobId
       IN  jobs' = [jobs EXCEPT
                ![id].status = IF workers[w].status # RUNNING THEN RUNNING ELSE @,
                ![id].startedAt = ADate]
    /\ workers' = [workers EXCEPT ![w].pc = "executing", ![w].status = RUNNING]
    /\ last' = Did("ExecRun", None)
    /\ UNCHANGED <<queue, executions, now, nextId, deleting>>

\* the success path without its job.save(): the outcome is logged and the
\* invocation ends, the job document is not written
ExecSucceedNoSave(w) ==
    /\ workers[w].pc = "executing"
    /\ workers[w].jobId \in DOMAIN jobs
    /\ executions' = logExecution(executions,
           [ jobId |-> workers[w].jobId,
             attemptNumber |-> workers[w].retryCount + 1,
             status |-> SUCCESS, completedAt |-> ADate ])
    /\ workers' = [workers EXCEPT ![w] = IdleWorker]
    /\ queue' = Finished(queue, w)
    /\ last' = Did("ExecSucceed", None)
    /\ UNCHANGED <<jobs, now, nextId, deleting>>

\* the executor returned a result: lines 144-154
ExecSucceed(w) ==
    /\ workers[w].pc = "executing"
    /\ workers[w].jobId \in DOMAIN jobs
    /\ LET id == workers[w].jobId
           recurs == workers[w].type = RECURRING /\ workers[w].recurrencePattern # None
       IN  /\ jobs' = [jobs EXCEPT
                  ![id].status = COMPLETED,
                  ![id].completedAt = ADate,
                  ![id].result = "res",
                  ![id].errorMessage = IF workers[w].errorMessage # None THEN None ELSE @]
           /\ executions' = logExecution(executions,
                  [ jobId |-> id,
                    attemptNumber |-> workers[w].retryCount + 1,
                    status |-> SUCCESS, completedAt |-> ADate ])
           /\ IF recurs
              THEN /\ workers' = [workers EXCEPT ![w].pc = "recurring",
                                                 ![w].status = COMPLETED,
                                                 ![w].errorMessage = None]
                   /\ queue' = queue
              ELSE /\ workers' = [workers EXCEPT ![w] = IdleWorker]
                   /\ queue' = Finished(queue, w)
    /\ last' = Did("ExecSucceed", None)
    /\ UNCHANGED <<now, nextId, deleting>>

\* scheduleNextRecurrence counting the next run from the job's previous
\* nextRunAt instead of the current time
ExecRecurFromNextRunAt(w) ==
    /\ workers[w].pc = "recurring"
    /\ workers[w].jobId \in DOMAIN jobs
    /\ LET id == workers[w].jobId
           nextRunAt == calculateNextRunTime(jobs[id].nextRunAt, workers[w].recurrencePattern)
           job == [jobs[id] EXCEPT
                      !.nextRunAt = nextRunAt,
                      !.status = PENDING,
                      !.retryCount = IF workers[w].retryCount # 0 THEN 0 ELSE @,
                      !.startedAt = None,
                      !.completedAt = None]
       IN  /\ jobs' = [jobs EXCEPT ![id] = job]
           /\ queue' = Finished(scheduleJob(queue, id, job, now), w)
    /\ workers' = [workers EXCEPT ![w] = IdleWorker]
    /\ last' = Did("ExecRecur", None)
    /\ UNCHANGED <<executions, now, nextId, deleting>>

\* scheduleNextRecurrence: lines 198-220
ExecRecur(w) ==
    /\ workers[w].pc = "recurring"
    /\ workers[w].jobId \in DOMAIN jobs
    /\ LET id == workers[w].jobId
           nextRunAt == calculateNextRunTime(now, workers[w].recurrencePattern)
           job == [jobs[id] EXCEPT
                      !.nextRunAt = nextRunAt,
                      !.status = PENDING,
                      !.retryCount = IF workers[w].retryCount # 0 THEN 0 ELSE @,
                      !.startedAt = None,
                      !.completedAt = None]
       IN  /\ jobs' = [jobs EXCEPT ![id] = job]
           /\ queue' = Finished(scheduleJob(queue, id, job, now), w)
    /\ workers' = [workers EXCEPT ![w] = IdleWorker]
    /\ last' = Did("ExecRecur", None)
    /\ UNCHANGED <<executions, now, nextId, deleting>>

\* the executor threw: handleJobFailure, lines 167-196
\* handleJobFailure with the cap test off by one (> for >=)
handleJobFailureOffByOne(job, w) ==
    LET retryCount == workers[w].retryCount + 1
    IN  [job EXCEPT
            !.retryCount = retryCount,
            !.errorMessage = "err",
            !.status = IF retryCount > workers[w].maxRetries THEN FAILED ELSE PENDING]

handleJobFailure(job, w) ==
    LET retryCount == workers[w].retryCount + 1
    IN  [job EXCEPT
            !.retryCount = retryCount,
            !.errorMessage = "err",
            !.status = IF retryCount >= workers[w].maxRetries THEN FAILED ELSE PENDING]

\* executeJob rethrowing the executor's error after handleJobFailure: the
\* processor's handler fails and the queue retries the wake-up
ExecFailRethrow(w) ==
    /\ workers[w].pc = "executing"
    /\ workers[w].jobId \in DOMAIN jobs
    /\ LET id == workers[w].jobId
       IN  /\ jobs' = [jobs EXCEPT ![id] = handleJobFailure(jobs[id], w)]
           /\ executions' = logExecution(executions,
                  [ jobId |-> id,
                    attemptNumber |-> workers[w].retryCount + 1,
                    status |-> FAILED, completedAt |-> ADate ])
    /\ workers' = [workers EXCEPT ![w] = IdleWorker]
    /\ queue' = Thrown(queue, w, TRUE)
    /\ last' = Did("ExecFail", None)
    /\ UNCHANGED <<now, nextId, deleting>>

ExecFail(w) ==
    /\ workers[w].pc = "executing"
    /\ workers[w].jobId \in DOMAIN jobs
    /\ LET id == workers[w].jobId
       IN  /\ jobs' = [jobs EXCEPT ![id] = handleJobFailure(jobs[id], w)]
           /\ executions' = logExecution(executions,
                  [ jobId |-> id,
                    attemptNumber |-> workers[w].retryCount + 1,
                    status |-> FAILED, completedAt |-> ADate ])
    /\ workers' = [workers EXCEPT ![w] = IdleWorker]
    /\ queue' = Finished(queue, w)
    /\ last' = Did("ExecFail", None)
    /\ UNCHANGED <<now, nextId, deleting>>

\* the job was deleted under a running invocation: job.save() rejects (no
\* document matches), handleJobFailure's save rejects too, and the error leaves
\* executeJob and the processor's handler
ExecAbort(w) ==
    /\ workers[w].pc \in {"logged", "executing", "recurring"}
    /\ workers[w].jobId \notin DOMAIN jobs
    /\ \E retry \in BOOLEAN : queue' = Thrown(queue, w, retry)
    /\ workers' = [workers EXCEPT ![w] = IdleWorker]
    /\ last' = Did("ExecAbort", None)
    /\ UNCHANGED <<jobs, executions, now, nextId, deleting>>

Tick ==
    /\ now < MaxTime
    /\ now' = now + 1
    /\ last' = Did("Tick", None)
    /\ UNCHANGED <<jobs, queue, workers, executions, nextId, deleting>>

\* ------------------------------------------------------------------ Next
\* a call by a user who owns no job finds nothing (findById filters on userId)
\* whatever it carries: one patch and one time stand for all of them
PatchesBy(u) ==
    IF u \in Owners THEN UpdateJobDtos
    ELSE {p \in UpdateJobDtos :
            p.scheduledAt = 0 /\ p.recurrencePattern = None /\ p.maxRetries = NoNumber}

TimesBy(u) == IF u \in Owners THEN Times ELSE {0}

\* The queue in normal operation: every armed wake-up is delivered once.
Next ==
    \/ \E u \in Owners, dto \in CreateJobDtos : createJob(u, dto)
    \/ \E id \in JobIds, u \in Users : \E patch \in PatchesBy(u) : updateJob(id, u, patch)
    \/ \E id \in JobIds, u \in Users : \E t \in TimesBy(u) : rescheduleJob(id, u, t)
    \/ \E id \in JobIds, u \in Users : cancelJob(id, u)
    \/ \E id \in JobIds, u \in Users : deleteJob(id, u)
    \/ \E id \in JobIds, u \in Users : getJob(id, u)
    \/ \E id \in JobIds, u \in Users : getJobExecutionHistory(id, u)
    \/ \E id \in JobIds : Deliver(id)
    \/ \E w \in Workers : ExecLoad(w)
    \/ \E w \in Workers : ExecRun(w)
    \/ \E w \in Workers : ExecSucceed(w)
    \/ \E w \in Workers : ExecRecur(w)
    \/ \E w \in Workers : ExecFail(w)
    \/ Tick

Spec == Init /\ [][Next]_vars

\* The queue with at-least-once delivery: a wake-up may be delivered again
\* while its first delivery is being processed.  Calls come from the owner
\* and patches carry a new time and retry cap only.
OwnerPatches == {p \in UpdateJobDtos : p.recurrencePattern = None}

NextAtLeastOnce ==
    \/ \E u \in Owners, dto \in CreateJobDtos : createJob(u, dto)
    \/ \E id \in JobIds, u \in Owners, patch \in OwnerPatches : updateJob(id, u, patch)
    \/ \E id \in JobIds, u \in Owners, t \in Times : rescheduleJob(id, u, t)
    \/ \E id \in JobIds, u \in Owners : cancelJob(id, u)
    \/ \E id \in JobIds, u \in Owners : deleteJob(id, u)
    \/ \E id \in JobIds : Deliver(id)
    \/ \E id \in JobIds : Redeliver(id)
    \/ \E w \in Workers : ExecLoad(w)
    \/ \E w \in Workers : ExecRun(w)
    \/ \E w \in Workers : ExecSucceed(w)
    \/ \E w \in Workers : ExecRecur(w)
    \/ \E w \in Workers : ExecFail(w)
    \/ Tick

AtLeastOnceSpec == Init /\ [][NextAtLeastOnce]_vars

\* The executor always throws and nobody but the creator touches the job.
NextAllFail ==
    \/ \E u \in Owners, dto \in CreateJobDtos : createJob(u, dto)
    \/ \E id \in JobIds : Deliver(id)
    \/ \E w \in Workers : ExecLoad(w)
    \/ \E w \in Workers : ExecRun(w)
    \/ \E w \in Workers : ExecFail(w)
    \/ Tick

\* time passes, the queue delivers every due entry and a started invocation
\* runs to its end
AllFailFairness ==
    /\ WF_vars(Tick)
    /\ \A id \in JobIds : WF_vars(Deliver(id))
    /\ \A w \in Workers : WF_vars(ExecLoad(w)) /\ WF_vars(ExecRun(w)) /\ WF_vars(ExecFail(w))

AllFailSpec == Init /\ [][NextAllFail]_vars /\ AllFailFairness

\* The executor always succeeds and nobody but the creator touches the job;
\* the queue may deliver a wake-up twice.
NextAlwaysSucceed ==
    \/ \E u \in Owners, dto \in CreateJobDtos : createJob(u, dto)
    \/ \E id \in JobIds : Deliver(id)
    \/ \E id \in JobIds : Redeliver(id)
    \/ \E w \in Workers : ExecLoad(w)
    \/ \E w \in Workers : ExecRun(w)
    \/ \E w \in Workers : ExecSucceed(w)
    \/ \E w \in Workers : ExecRecur(w)
    \/ Tick

AlwaysSucceedSpec == Init /\ [][NextAlwaysSucceed]_vars

\* deleteJob taken as its two steps, racing with the owner's reschedules and
\* with the queue.
NextDeleteRace ==
    \/ \E u \in Owners, dto \in CreateJobDtos : createJob(u, dto)
    \/ \E id \in JobIds, u \in Owners, t \in Times : rescheduleJob(id, u, t)
    \/ \E id \in JobIds, u \in Owners : deleteJobCancel(id, u)
    \/ \E id \in JobIds, u \in Owners : deleteJobRemove(id, u)
    \/ \E id \in JobIds : Deliver(id)
    \/ \E w \in Workers : ExecLoad(w)
    \/ \E w \in Workers : ExecRun(w)
    \/ \E w \in Workers : ExecSucceed(w)
    \/ \E w \in Workers : ExecRecur(w)
    \/ \E w \in Workers : ExecFail(w)
    \/ \E w \in Workers : ExecAbort(w)
    \/ Tick

DeleteRaceSpec == Init /\ [][NextDeleteRace]_vars

\* Jobs whose time is moved, by updateJob with a patch that carries a
\* scheduledAt only or by rescheduleJob, by the owner or by another user, at
\* any point of their execution.
ScheduledAtOnly(t) == [scheduledAt |-> t, recurrencePattern |-> None, maxRetries |-> NoNumber]

NextReschedule ==
    \/ \E u \in Owners, dto \in CreateJobDtos : createJob(u, dto)
    \/ \E id \in JobIds, u \in Users : \E t \in TimesBy(u) :
          updateJob(id, u, ScheduledAtOnly(t))
    \/ \E id \in JobIds, u \in Users : \E t \in TimesBy(u) : rescheduleJob(id, u, t)
    \/ \E id \in JobIds : Deliver(id)
    \/ \E w \in Workers : ExecLoad(w)
    \/ \E w \in Workers : ExecRun(w)
    \/ \E w \in Workers : ExecSucceed(w)
    \/ \E w \in Workers : ExecRecur(w)
    \/ \E w \in Workers : ExecFail(w)
    \/ Tick

RescheduleSpec == Init /\ [][NextReschedule]_vars

\* The owner alone acts on the job: creates it, moves it, edits its other
\* fields, cancels it and deletes it, at any point of its execution.
\* the patches that carry no scheduledAt
FieldPatches == {p \in UpdateJobDtos : p.scheduledAt = NoDate}

NextOwner ==
    \/ \E u \in Owners, dto \in CreateJobDtos : createJob(u, dto)
    \/ \E id \in JobIds, u \in Owners, patch \in FieldPatches : updateJob(id, u, patch)
    \/ \E id \in JobIds, u \in Owners, t \in Times : rescheduleJob(id, u, t)
    \/ \E id \in JobIds, u \in Owners : cancelJob(id, u)
    \/ \E id \in JobIds, u \in Owners : deleteJob(id, u)
    \/ \E id \in JobIds : Deliver(id)
    \/ \E w \in Workers : ExecLoad(w)
    \/ \E w \in Workers : ExecRun(w)
    \/ \E w \in Workers : ExecSucceed(w)
    \/ \E w \in Workers : ExecRecur(w)
    \/ \E w \in Workers : ExecFail(w)
    \/ Tick

OwnerSpec == Init /\ [][NextOwner]_vars

\* Executions under at-least-once delivery, with the owner cancelling at any
\* point.  The executor returns or throws and the process does not crash: an
\* invocation that has started takes each of its steps.
NextExecution ==
    \/ \E u \in Owners, dto \in CreateJobDtos : createJob(u, dto)
    \/ \E id \in JobIds, u \in Owners : cancelJob(id, u)
    \/ \E id \in JobIds : Deliver(id)
    \/ \E id \in JobIds : Redeliver(id)
    \/ \E w \in Workers : ExecLoad(w)
    \/ \E w \in Workers : ExecRun(w)
    \/ \E w \in Workers : ExecSucceed(w)
    \/ \E w \in Workers : ExecRecur(w)
    \/ \E w \in Workers : ExecFail(w)
    \/ Tick

ExecutionFairness ==
    \A w \in Workers :
        /\ WF_vars(ExecLoad(w))
        /\ WF_vars(ExecRun(w))
        /\ WF_vars(ExecSucceed(w) \/ ExecFail(w))
        /\ WF_vars(ExecRecur(w))

ExecutionSpec == Init /\ [][NextExecution]_vars /\ ExecutionFairness

\* calculateNextRunTime on its own: the current time is any of the first and
\* last hours of the days 0..MaxFromDay, and one call computes the next run
\* time for one pattern.
FromTimes == {d * 24 + h : d \in 0..MaxFromDay, h \in {0, 23}}

CalendarInit ==
    /\ jobs = <<>>
    /\ queue = <<>>
    /\ workers = [w \in Workers |-> IdleWorker]
    /\ executions = <<>>
    /\ now \in FromTimes
    /\ nextId = 1
    /\ last = Did("init", None)
    /\ deleting = {}

NextRunTime(pattern) ==
    /\ last = Did("init", None)
    /\ last' = [ error |-> None, currentTime |-> now, pattern |-> pattern,
                 nextRun |-> calculateNextRunTime(now, pattern) ]
    /\ UNCHANGED <<jobs, queue, workers, executions, now, nextId, deleting>>

NextCalendar == \E pattern \in RecurrencePattern : NextRunTime(pattern)

CalendarSpec == CalendarInit /\ [][NextCalendar]_vars

\* ------------------------------------------------------------ properties
Exists(id) == id \in DOMAIN jobs

\* the wake-ups outstanding for job id: the delayed entries that carry it
WakeUps(q, id) == {k \in DOMAIN q : q[k].jobId = id /\ q[k].state = "delayed"}

\* a wake-up is armed for id
ArmedIn(q, id) == WakeUps(q, id) # {}

Armed(id) == ArmedIn(queue, id)

History(id) == SelectSeq(executions, LAMBDA e : e.jobId = id)

\* C1: in every reachable state every job has retryCount <= maxRetries
C1_RetryCountWithinMax ==
    \A id \in DOMAIN jobs : jobs[id].retryCount <= jobs[id].maxRetries

\* C2: a failed attempt that leaves retries (retryCount + 1 < maxRetries on the
\* document the invocation holds) ends with the job pending, retryCount one
\* higher, and a wake-up armed for the retry
C2_RetryReArmed ==
    [][ \A w \in Workers :
          (ExecFail(w) /\ workers[w].retryCount + 1 < workers[w].maxRetries)
          => /\ jobs'[workers[w].jobId].status = PENDING
             /\ jobs'[workers[w].jobId].retryCount = workers[w].retryCount + 1
             /\ ArmedIn(queue', workers[w].jobId) ]_vars

\* C3: when every execution fails, a created job eventually reaches status
\* failed (under fair delivery and fair progress of started invocations)
C3_EventuallyFailed ==
    \A id \in JobIds : Exists(id) ~> (Exists(id) /\ jobs[id].status = FAILED)

C5_HistoryOfRetriedJob ==
    \A id \in DOMAIN jobs :
        (jobs[id].type = ONE_TIME /\ jobs[id].status = COMPLETED /\ InFlight(id) = {})
        => LET h == History(id)
           IN  /\ Len(h) > 0
               /\ \A i \in 1..Len(h) :
                     /\ h[i].attemptNumber = i
                     /\ h[i].status = IF i = Len(h) THEN SUCCESS ELSE FAILED

\* C6: executeJob on a job it loads in status completed, failed or cancelled
\* is a no-op: no record appended, no state transition, the invocation ends
C6_NoOpWhenNotPending ==
    [][ \A w \in Workers :
          (/\ ExecLoad(w)
           /\ Exists(workers[w].jobId)
           /\ jobs[workers[w].jobId].status \in {COMPLETED, FAILED, CANCELLED})
          => /\ executions' = executions
             /\ jobs' = jobs
             /\ workers'[w].pc = "idle" ]_vars

\* C7: for each job at most one executeJob invocation is inside the executor
\* call at any time
C7_SingleExecutionInFlight ==
    \A id \in JobIds :
        Cardinality({w \in InFlight(id) : workers[w].pc = "executing"}) <= 1

\* C8: cancelJob by the owner on a pending or running job returns normally
\* with the job persisted cancelled and inactive and no wake-up armed for it
C8_CancelReturnsCancelled ==
    [][ \A id \in JobIds, u \in Users :
          (/\ cancelJob(id, u)
           /\ findById(id, u)
           /\ jobs[id].status \in {PENDING, RUNNING})
          => /\ last'.error = None
             /\ jobs'[id].status = CANCELLED
             /\ jobs'[id].isActive = FALSE
             /\ ~ArmedIn(queue', id) ]_vars

\* C9: once a job is cancelled its status stays cancelled and no wake-up is
\* armed for it, whatever step comes next
C9_CancelledStaysCancelled ==
    [][ \A id \in JobIds :
          (Exists(id) /\ jobs[id].status = CANCELLED /\ id \in DOMAIN jobs')
          => /\ jobs'[id].status = CANCELLED
             /\ ~ArmedIn(queue', id) ]_vars

\* C10: cancelJob on a completed or cancelled job is rejected ('Cannot cancel
\* job in <status> status') and changes neither the job records nor the queue
C10_CancelTerminalRejected ==
    [][ \A id \in JobIds, u \in Users :
          (/\ cancelJob(id, u)
           /\ findById(id, u)
           /\ jobs[id].status \in {COMPLETED, CANCELLED})
          => /\ last'.error = "CannotCancel"
             /\ jobs' = jobs
             /\ queue' = queue ]_vars

\* C10 witness: cancelJob has just been rejected on a cancelled job that has
\* a wake-up armed (re-armed by a reschedule after the first cancel)
C10_Witness ==
    /\ last.error = "CannotCancel"
    /\ \E id \in DOMAIN jobs : jobs[id].status = CANCELLED /\ Armed(id)

\* C11: in every reachable state a job whose status is completed or cancelled
\* has isActive = false
C11_TerminalInactive ==
    \A id \in DOMAIN jobs :
        jobs[id].status \in {COMPLETED, CANCELLED} => jobs[id].isActive = FALSE

\* C12: in every reachable state a job whose status is completed or cancelled
\* has no wake-up armed, whatever updateJob and rescheduleJob calls followed
C12_TerminalNotArmed ==
    \A id \in DOMAIN jobs :
        jobs[id].status \in {COMPLETED, CANCELLED} => ~Armed(id)

\* C13: in every reachable state each job id has at most one outstanding
\* wake-up (entry waiting or being processed) in the queue
C13_AtMostOneWakeUp ==
    \A id \in JobIds :
        Cardinality({k \in DOMAIN queue :
                        queue[k].jobId = id /\ queue[k].state \in {"delayed", "active"}}) <= 1

\* C13 witness: a job that has already been executed is armed again (by a
\* reschedule after the execution), with exactly one wake-up
C13_Witness ==
    \E id \in DOMAIN jobs :
        /\ Len(History(id)) > 0
        /\ InFlight(id) = {}
        /\ Cardinality(WakeUps(queue, id)) = 1

\* C14: a successful occurrence of a recurring job ends with the job pending,
\* retryCount 0, startedAt and completedAt cleared, nextRunAt = the next run
\* time counted from the completion time (strictly later than it), and a
\* wake-up armed for that nextRunAt
C14_RecurrenceReArmed ==
    [][ \A w \in Workers :
          ExecRecur(w)
          => LET id == workers[w].jobId
             IN  /\ jobs'[id].status = PENDING
                 /\ jobs'[id].retryCount = 0
                 /\ jobs'[id].startedAt = None
                 /\ jobs'[id].completedAt = None
                 /\ jobs'[id].nextRunAt = calculateNextRunTime(now, jobs'[id].recurrencePattern)
                 /\ jobs'[id].nextRunAt > now
                 /\ \E k \in WakeUps(queue', id) : queue'[k].at = jobs'[id].nextRunAt ]_vars

\* C15: a job of type recurring is never persisted with status completed
C15_RecurringNeverCompleted ==
    \A id \in DOMAIN jobs : jobs[id].type = RECURRING => jobs[id].status # COMPLETED

\* C16 as stated: each successful occurrence of a daily job leaves retryCount 0
\* and moves nextRunAt exactly 24 hours past its previous value
C16_DailyEvery24Hours ==
    [][ \A w \in Workers :
          (ExecRecur(w) /\ workers[w].recurrencePattern = DAILY)
          => /\ jobs'[workers[w].jobId].retryCount = 0
             /\ jobs'[workers[w].jobId].nextRunAt = jobs[workers[w].jobId].nextRunAt + 24 ]_vars

\* C16 amended: each successful occurrence of a daily job leaves retryCount 0
\* and sets nextRunAt exactly 24 hours after the time the occurrence completed
C16_DailyFromCompletion ==
    [][ \A w \in Workers :
          (ExecRecur(w) /\ workers[w].recurrencePattern = DAILY)
          => /\ jobs'[workers[w].jobId].retryCount = 0
             /\ jobs'[workers[w].jobId].nextRunAt = now + 24 ]_vars

\* C16 witness: a daily job first due at 0 has completed an occurrence later
\* than that and stands at retryCount 0 with nextRunAt 24 hours from now
C16_Witness ==
    \E id \in DOMAIN jobs :
        /\ jobs[id].type = RECURRING /\ jobs[id].recurrencePattern = DAILY
        /\ jobs[id].scheduledAt = 0
        /\ now > 0
        /\ jobs[id].status = PENDING
        /\ jobs[id].retryCount = 0
        /\ jobs[id].nextRunAt = now + 24
        /\ Len(History(id)) > 0

\* the record the invocation in flight for job id appended when it started:
\* the latest record of the job that carries no completion time
AttemptRecord(id) ==
    LET open == {i \in DOMAIN executions :
                    executions[i].jobId = id /\ executions[i].completedAt = None}
    IN  CHOOSE i \in open : \A j \in open : j <= i

\* C17: a successful attempt of a one-time job persists status completed, the
\* executor's result and no errorMessage, finalizes the attempt's execution
\* record with outcome success, and leaves no wake-up armed for the job
C17_OneTimeSuccess ==
    [][ \A w \in Workers :
          (ExecSucceed(w) /\ workers[w].type = ONE_TIME)
          => LET id == workers[w].jobId
             IN  /\ jobs'[id].status = COMPLETED
                 /\ jobs'[id].result = "res"
                 /\ jobs'[id].errorMessage = None
                 /\ executions'[AttemptRecord(id)].status = SUCCESS
                 /\ executions'[AttemptRecord(id)].completedAt # None
                 /\ ~ArmedIn(queue', id) ]_vars

\* C18: executeJob for a job id that has no job record returns normally and
\* changes nothing: no execution record appended, no job record touched, the
\* executor not entered, no wake-up armed
C18_AbsentJobNoOp ==
    [][ \A w \in Workers :
          (ExecLoad(w) /\ ~Exists(workers[w].jobId))
          => /\ executions' = executions
             /\ jobs' = jobs
             /\ workers'[w].pc = "idle"
             /\ ~ArmedIn(queue', workers[w].jobId) ]_vars

\* C18 witness: a wake-up for a job deleted after it was armed has been
\* delivered and handled: its entry is done, the job is gone, and no record
\* was ever appended for it
C18_Witness ==
    \E k \in DOMAIN queue :
        /\ queue[k].state = "completed"
        /\ ~Exists(queue[k].jobId)
        /\ History(queue[k].jobId) = <<>>
        /\ InFlight(queue[k].jobId) = {}

\* C19: an executor failure never leaves executeJob: the invocation ends, the
\* processor's handler returns normally, and the queue neither retries the
\* wake-up nor marks it failed
C19_ExecutorErrorContained ==
    [][ \A w \in Workers :
          ExecFail(w)
          => LET id == workers[w].jobId
             IN  /\ workers'[w].pc = "idle"
                 /\ id \in DOMAIN queue'
                 /\ queue'[id].state \in {"active", "completed"}
                 /\ queue'[id].state = "active" => InFlight(id) # {w}
                 /\ WakeUps(queue', id) = {} ]_vars

\* C19 witness: an attempt has failed with retries left: the job is pending
\* with its error recorded, and the wake-up that started the attempt is done
C19_Witness ==
    \E id \in DOMAIN jobs :
        /\ jobs[id].status = PENDING
        /\ jobs[id].retryCount > 0
        /\ jobs[id].errorMessage = "err"
        /\ InFlight(id) = {}
        /\ id \in DOMAIN queue /\ queue[id].state = "completed"

\* C20 as stated: createJob persists a new job with status pending,
\* retryCount 0, isActive true and nextRunAt = scheduledAt, and returns with
\* exactly one wake-up armed for the job, due at nextRunAt (at once when
\* nextRunAt is already past)
C20_CreateArmsAtScheduledAt ==
    [][ nextId' # nextId =>
        \A u \in Owners, dto \in CreateJobDtos :
          createJob(u, dto)
          => /\ nextId \notin DOMAIN jobs /\ nextId \in DOMAIN jobs'
             /\ jobs'[nextId].status = PENDING
             /\ jobs'[nextId].retryCount = 0
             /\ jobs'[nextId].isActive = TRUE
             /\ jobs'[nextId].nextRunAt = jobs'[nextId].scheduledAt
             /\ Cardinality(WakeUps(queue', nextId)) = 1
             /\ \A k \in WakeUps(queue', nextId) :
                   queue'[k].at = Max(now, jobs'[nextId].nextRunAt) ]_vars

\* C20 amended: as stated, except that nextRunAt = scheduledAt when the spec
\* gives scheduledAt and nextRunAt = the creation time when it gives none
C20_CreateArmsAtNextRunAt ==
    [][ nextId' # nextId =>
        \A u \in Owners, dto \in CreateJobDtos :
          createJob(u, dto)
          => /\ nextId \notin DOMAIN jobs /\ nextId \in DOMAIN jobs'
             /\ jobs'[nextId].status = PENDING
             /\ jobs'[nextId].retryCount = 0
             /\ jobs'[nextId].isActive = TRUE
             /\ jobs'[nextId].scheduledAt = dto.scheduledAt
             /\ jobs'[nextId].nextRunAt =
                   IF dto.scheduledAt # NoDate THEN dto.scheduledAt ELSE now
             /\ Cardinality(WakeUps(queue', nextId)) = 1
             /\ \A k \in WakeUps(queue', nextId) :
                   queue'[k].at = Max(now, jobs'[nextId].nextRunAt) ]_vars

\* C20 witness: a job created without scheduledAt, at a time after the start
\* of the clock, stands untouched: pending, due at its creation time, armed
C20_Witness ==
    \E id \in DOMAIN jobs :
        /\ jobs[id].scheduledAt = NoDate
        /\ jobs[id].nextRunAt = now
        /\ now > 0
        /\ jobs[id].status = PENDING
        /\ History(id) = <<>>
        /\ \E k \in WakeUps(queue, id) : queue[k].at = now

\* C21: in every reachable state a job has recurrencePattern set if and only
\* if its type is recurring
C21_PatternIffRecurring ==
    \A id \in DOMAIN jobs :
        (jobs[id].recurrencePattern # None) <=> (jobs[id].type = RECURRING)

\* a recurrence/type mismatch: recurring without a pattern, or one-time with one
Mismatch(dto) ==
    \/ dto.type = RECURRING /\ dto.recurrencePattern = None
    \/ dto.type = ONE_TIME /\ dto.recurrencePattern # None

\* C22: createJob with a recurrence/type mismatch fails with a validation
\* error, persists no job and arms no wake-up
C22_MismatchRejected ==
    [][ \A u \in Owners, dto \in CreateJobDtos :
          (createJob(u, dto) /\ Mismatch(dto))
          => /\ last'.error = "Validation"
             /\ jobs' = jobs
             /\ queue' = queue ]_vars

\* C23: updateJob with a new scheduledAt on a pending job returns normally
\* with nextRunAt at the new time and exactly one wake-up armed for the job,
\* due at the new time (at once when it is already past)
C23_UpdateReArmsPending ==
    [][ \A id \in JobIds, u \in Users : \A patch \in PatchesBy(u) :
          (/\ updateJob(id, u, patch)
           /\ findById(id, u)
           /\ patch.scheduledAt # NoDate
           /\ jobs[id].status = PENDING)
          => /\ last'.error = None
             /\ jobs'[id].nextRunAt = patch.scheduledAt
             /\ Cardinality(WakeUps(queue', id)) = 1
             /\ \A k \in WakeUps(queue', id) :
                   queue'[k].at = Max(now, patch.scheduledAt) ]_vars

\* C24: updateJob and rescheduleJob on a job whose status is completed, failed
\* or cancelled change neither the job record nor the armed wake-ups
C24_TerminalNotMutated ==
    [][ \A id \in JobIds, u \in Users :
          (/\ findById(id, u)
           /\ jobs[id].status \in {COMPLETED, FAILED, CANCELLED}
           /\ \/ \E patch \in PatchesBy(u) : updateJob(id, u, patch)
              \/ \E t \in TimesBy(u) : rescheduleJob(id, u, t))
          => /\ jobs' = jobs
             /\ queue' = queue ]_vars

\* C25: getJob, updateJob, cancelJob, rescheduleJob and getJobExecutionHistory
\* called with an (id, owner) pair that matches no job fail with NotFound and
\* leave every job record, execution record and armed wake-up unchanged
C25_NoMatchNotFound ==
    [][ \A id \in JobIds, u \in Users :
          (/\ ~(id \in DOMAIN jobs /\ jobs[id].userId = u)
           /\ \/ getJob(id, u)
              \/ getJobExecutionHistory(id, u)
              \/ cancelJob(id, u)
              \/ \E patch \in PatchesBy(u) : updateJob(id, u, patch)
              \/ \E t \in TimesBy(u) : rescheduleJob(id, u, t))
          => /\ last'.error = "NotFound"
             /\ jobs' = jobs
             /\ executions' = executions
             /\ queue' = queue ]_vars

\* a call was rejected with NotFound while a job with an armed wake-up and an
\* execution history exists
C25_Witness ==
    /\ last.error = "NotFound"
    /\ \E id \in DOMAIN jobs : Armed(id) /\ History(id) # <<>>

\* C26: deleteJob by the owner disarms any outstanding wake-up for the job and
\* removes the job record: after it returns the job is gone and no wake-up for
\* that id is armed
C26_DeleteRemovesJobAndWakeUp ==
    [][ \A id \in JobIds, u \in Users :
          (deleteJob(id, u) /\ findById(id, u))
          => /\ last'.error = None
             /\ id \notin DOMAIN jobs'
             /\ ~ArmedIn(queue', id) ]_vars

\* the delay option of the queue's backoff setting, in milliseconds
BaseDelay == 5000

\* C27: after a failed attempt that leaves retries remaining, a wake-up is
\* armed for the retry and its delay equals baseDelay * 2^(retryCount-1) with
\* baseDelay = 5000 ms and retryCount the value after the increment (no maximum
\* is configured; delays are compared at the clock's resolution of whole hours)
C27_RetryBackoffDelay ==
    [][ \A w \in Workers :
          (/\ ExecFail(w)
           /\ workers[w].jobId \in DOMAIN jobs'
           /\ jobs'[workers[w].jobId].status = PENDING)
          => \E k \in WakeUps(queue', workers[w].jobId) :
                queue'[k].at - now
                  = (BaseDelay * 2 ^ (jobs'[workers[w].jobId].retryCount - 1))
                      \div (60 * 60 * 1000) ]_vars

\* C28: within one occurrence of a job (no attempt has succeeded yet) the
\* attempts, taken in the order their records were appended at the start of
\* each attempt, are numbered 1, 2, 3, ... with no gap and no number shared,
\* under any interleaving of wake-up deliveries
C28_AttemptNumbersConsecutive ==
    \A id \in JobIds :
        LET started == SelectSeq(executions,
                           LAMBDA e : e.jobId = id /\ e.completedAt = None)
        IN  (\A i \in DOMAIN executions :
                 executions[i].jobId = id => executions[i].status # SUCCESS)
            => \A n \in DOMAIN started : started[n].attemptNumber = n

\* C29: calculateNextRunTime(from, pattern) equals the reference: from + 1 hour
\* (hourly), from + 1 day (daily), from + 7 days (weekly), and from + 1 calendar
\* month (monthly) with the day-of-month clamped to the last day of the target
\* month when it would overflow
C29_NextRunTimeIsReference ==
    [][ \A pattern \in RecurrencePattern :
          NextRunTime(pattern)
          => LET d == now \div 24
                 h == now % 24
                 m == MonthOf(d, 0)
                 dom == d - DaysBefore(m)
                 len == DaysInMonth[((m + 1) % 12) + 1]
                 clamped == IF dom >= len THEN len - 1 ELSE dom
             IN  last'.nextRun =
                   CASE pattern = HOURLY -> now + 1
                     [] pattern = DAILY -> now + 24
                     [] pattern = WEEKLY -> now + 7 * 24
                     [] pattern = MONTHLY -> (DaysBefore(m + 1) + clamped) * 24 + h ]_vars

\* C30: for every job, owner and time t, rescheduleJob(id, owner, t) and
\* updateJob(id, owner, {scheduledAt: t}) are the same transition (same job
\* record, same armed wake-up, same error outcome), and on a job they find the
\* record gets scheduledAt = nextRunAt = t with all other fields unchanged
C30_RescheduleIsUpdateOfScheduledAt ==
    [][ \A id \in JobIds, u \in Users : \A t \in TimesBy(u) :
          LET patch == ScheduledAtOnly(t)
          IN  /\ rescheduleJob(id, u, t) <=> updateJob(id, u, patch)
              /\ (findById(id, u) /\ (rescheduleJob(id, u, t) \/ updateJob(id, u, patch)))
                 => jobs'[id] = [jobs[id] EXCEPT !.scheduledAt = t, !.nextRunAt = t] ]_vars

\* a job that has been executed is armed again at a time a reschedule gave it
C30_Witness ==
    \E id \in DOMAIN jobs :
        /\ History(id) # <<>>
        /\ InFlight(id) = {}
        /\ jobs[id].scheduledAt # NoDate
        /\ jobs[id].scheduledAt = jobs[id].nextRunAt
        /\ \E k \in WakeUps(queue, id) : queue[k].at = Max(now, jobs[id].scheduledAt)
        /\ last.error = None

\* C31: each attempt leaves exactly one JobExecution record: when an attempt
\* ends (the executor returned or threw) no record is added, the record that
\* was appended at the start of the attempt is the one that carries the outcome
C31_OneRecordPerAttempt ==
    [][ \A w \in Workers :
          (ExecSucceed(w) \/ ExecFail(w))
          => /\ Len(executions') = Len(executions)
             /\ executions'[AttemptRecord(workers[w].jobId)].completedAt # None ]_vars

\* C32: the execution log is append-only: no step (cancelJob and deleteJob of
\* the owning job included) removes a JobExecution record, and a record that
\* carries an outcome (success or failed, with its completion time) is never
\* changed afterwards
C32_LogAppendOnly ==
    [][ \A i \in DOMAIN executions :
          /\ i \in DOMAIN executions'
          /\ executions'[i].jobId = executions[i].jobId
          /\ executions[i].completedAt # None => executions'[i] = executions[i] ]_vars

\* the job was deleted after an attempt of it had been logged with its outcome
C32_Witness ==
    /\ nextId > 1
    /\ jobs = <<>>
    /\ \E i \in DOMAIN executions : executions[i].completedAt # None
    /\ last.error = None

\* C33: updateJob with a patch that does not contain scheduledAt leaves the
\* armed wake-ups (existence and time) and the job's nextRunAt unchanged; only
\* the patched fields of the job record change
C33_UpdateWithoutScheduledAt ==
    [][ \A id \in JobIds, u \in Owners, patch \in FieldPatches :
          (updateJob(id, u, patch) /\ findById(id, u))
          => /\ last'.error = None
             /\ queue' = queue
             /\ jobs'[id].nextRunAt = jobs[id].nextRunAt
             /\ \A f \in DOMAIN jobs[id] :
                  jobs'[id][f] # jobs[id][f]
                  => \/ f = "recurrencePattern" /\ patch.recurrencePattern # None
                     \/ f = "maxRetries" /\ patch.maxRetries # NoNumber
             /\ patch.recurrencePattern # None
                  => jobs'[id].recurrencePattern = patch.recurrencePattern
             /\ patch.maxRetries # NoNumber => jobs'[id].maxRetries = patch.maxRetries ]_vars

\* a job that failed once and was armed again has had its retry cap lowered
\* below its retry count by a patch
C33_Witness ==
    \E id \in DOMAIN jobs :
        /\ jobs[id].status = PENDING
        /\ jobs[id].retryCount > jobs[id].maxRetries
        /\ Armed(id)
        /\ jobs[id].nextRunAt # NoDate
        /\ last.error = None

\* C34: cancelJob on a job in the terminal status failed is rejected as an
\* illegal transition and leaves the job in status failed
C34_CancelFailedRejected ==
    [][ \A id \in JobIds, u \in Owners :
          (cancelJob(id, u) /\ findById(id, u) /\ jobs[id].status = FAILED)
          => /\ last'.error = "CannotCancel"
             /\ jobs'[id].status = FAILED ]_vars

\* C35: terminal states are absorbing: once the persisted status of a job is
\* completed (one-time), failed or cancelled, no later step changes its status
\* (the job can only be removed)
C35_TerminalAbsorbing ==
    [][ \A id \in DOMAIN jobs :
          (/\ id \in DOMAIN jobs'
           /\ \/ jobs[id].status \in {FAILED, CANCELLED}
              \/ jobs[id].status = COMPLETED /\ jobs[id].type = ONE_TIME)
          => jobs'[id].status = jobs[id].status ]_vars

\* C36: within one executeJob invocation the steps are ordered: the attempt's
\* JobExecution record is appended first, then the job is persisted with
\* status running and startedAt set, and only then is the executor invoked;
\* the executor is never invoked for a job with no record for the attempt
C36_RecordThenRunningThenExecutor ==
    [][ \A w \in Workers :
          (workers'[w].pc = "executing" /\ workers[w].pc # "executing")
          => LET id == workers[w].jobId
             IN  /\ workers[w].pc = "logged"
                 /\ \E i \in DOMAIN executions :
                       /\ executions[i].jobId = id
                       /\ executions[i].attemptNumber = workers[w].retryCount + 1
                       /\ executions[i].completedAt = None
                 /\ jobs'[id].status = RUNNING
                 /\ jobs'[id].startedAt # None ]_vars

\* C37: deleteJob called with an (id, owner) pair where the job exists but
\* belongs to another owner fails with NotFound and leaves the job record and
\* its armed wake-up unchanged
C37_DeleteByOtherUser ==
    [][ \A id \in JobIds, u \in Users :
          (deleteJob(id, u) /\ id \in DOMAIN jobs /\ jobs[id].userId # u)
          => /\ last'.error = "NotFound"
             /\ jobs' = jobs
             /\ queue' = queue ]_vars

\* C38: the delay used to arm a wake-up is max(0, (nextRunAt, or scheduledAt
\* when nextRunAt is unset) - now): it is never negative, and a job whose
\* eligible time is already in the past is armed with delay 0
C38_DelayNeverNegative ==
    [][ \A id \in JobIds : \A k \in WakeUps(queue', id) :
          (k \notin DOMAIN queue \/ queue[k] # queue'[k])
          => LET job == jobs'[id]
                 eligible == IF job.nextRunAt # NoDate THEN job.nextRunAt
                             ELSE job.scheduledAt
                 delay == queue'[k].at - now
             IN  /\ delay >= 0
                 /\ eligible <= now => delay = 0
                 /\ eligible > now => delay = eligible - now ]_vars

\* a wake-up is armed for a job whose eligible time lies before the time of
\* the wake-up: it was armed with delay 0 when that time had already passed
C38_Witness ==
    \E id \in DOMAIN jobs : \E k \in WakeUps(queue, id) :
        /\ jobs[id].nextRunAt # NoDate
        /\ jobs[id].nextRunAt < queue[k].at

\* C39: if the executor returns or throws, every job that enters status
\* running eventually leaves it: executeJob ends with the job persisted as
\* completed, pending or failed (or cancelled by its owner meanwhile), never
\* left running
C39_RunningEventuallyLeft ==
    \A id \in JobIds :
        (id \in DOMAIN jobs /\ jobs[id].status = RUNNING)
        ~> (id \notin DOMAIN jobs \/ jobs[id].status # RUNNING)

\* an invocation that set the job running has ended and the job is persisted
\* with the outcome of the attempt
C39_Witness ==
    \E id \in DOMAIN jobs :
        /\ jobs[id].startedAt # None
        /\ jobs[id].status \in {COMPLETED, FAILED}
        /\ InFlight(id) = {}
        /\ \E i \in DOMAIN executions :
              executions[i].jobId = id /\ executions[i].completedAt # None

====
